---- MODULE Spec2Model ----
(***************************************************************************)
(* A model of nastools.py (OLC_NAS_Tools): the SEQ ID extractor filer, and  *)
(* the Retrieve class that scans the NAS, groups the files found by SEQ ID  *)
(* and copies or links the files of the requested SEQ IDs.                  *)
(*                                                                          *)
(* Strings are sequences of one-character strings, so that the regular      *)
(* expressions of filer, os.path.basename / dirname, glob matching and the  *)
(* ordering used by sorted() are computed character by character.           *)
(***************************************************************************)
EXTENDS Integers, Sequences, FiniteSets, TLC

\* ------------------------------------------------------------------ bounds

\* Longest digit string drawn for the <n> fields of a probed file name
MaxDigLen == 2
\* Most files present under the search roots
MaxFiles == 3
\* Most SEQ IDs in a request
MaxSeqids == 2
\* Most runs (constructions of Retrieve, or calls of main()) in a behaviour
MaxRuns == 2

\* ------------------------------------------------------------- characters

DigitChars == <<"0", "1", "2", "3", "4", "5", "6", "7", "8", "9">>

UpperChars ==
    <<"A", "B", "C", "D", "E", "F", "G", "H", "I", "J", "K", "L", "M",
      "N", "O", "P", "Q", "R", "S", "T", "U", "V", "W", "X", "Y", "Z">>

LowerChars ==
    <<"a", "b", "c", "d", "e", "f", "g", "h", "i", "j", "k", "l", "m",
      "n", "o", "p", "q", "r", "s", "t", "u", "v", "w", "x", "y", "z">>

\* The first position of c in seq, 0 when it is not there
IndexIn(seq, c) ==
    IF \E i \in DOMAIN seq : seq[i] = c
    THEN CHOOSE i \in DOMAIN seq :
            seq[i] = c /\ \A k \in 1..(i - 1) : seq[k] # c
    ELSE 0

DigitSet == {DigitChars[i] : i \in DOMAIN DigitChars}

UpperSet == {UpperChars[i] : i \in DOMAIN UpperChars}

LowerSet == {LowerChars[i] : i \in DOMAIN LowerChars}

\* \d of the regular expressions
IsDigit(c) == c \in DigitSet

LowerOf == [c \in UpperSet |-> LowerChars[IndexIn(UpperChars, c)]]

\* re.IGNORECASE: both sides of a literal comparison are case-folded
ToLower(c) == IF c \in UpperSet THEN LowerOf[c] ELSE c

\* The code point of each character of a name or path
CodePoint ==
    [c \in DigitSet \cup UpperSet \cup LowerSet \cup {"-", ".", "/", "_"} |->
        CASE c \in DigitSet -> 47 + IndexIn(DigitChars, c)
          [] c \in UpperSet -> 64 + IndexIn(UpperChars, c)
          [] c \in LowerSet -> 96 + IndexIn(LowerChars, c)
          [] c = "-" -> 45
          [] c = "." -> 46
          [] c = "/" -> 47
          [] c = "_" -> 95]

\* ord(c): what Python's str comparison orders by
Ord(c) == CodePoint[c]

\* s < t for Python strings: the first differing character decides, a proper
\* prefix is smaller
StrLess(s, t) ==
    LET shorter == IF Len(s) < Len(t) THEN Len(s) ELSE Len(t)
        differ == {k \in 1..shorter : s[k] # t[k]}
        first == CHOOSE k \in differ : \A j \in differ : k <= j
    IN  IF differ = {} THEN Len(s) < Len(t)
        ELSE Ord(s[first]) < Ord(t[first])

\* The character at position i (1-based), or "" past either end
At(s, i) == IF i \in 1..Len(s) THEN s[i] ELSE ""

\* s[i..] starts with the literal lit (compared as written)
StartsAt(s, i, lit) == \A k \in 1..Len(lit) : At(s, i + k - 1) = lit[k]

\* s[i..] starts with the literal lit, ignoring case
StartsAtI(s, i, lit) ==
    \A k \in 1..Len(lit) : ToLower(At(s, i + k - 1)) = ToLower(lit[k])

\* n digits at positions i .. i+n-1
DigitsAt(s, i, n) == \A k \in i..(i + n - 1) : IsDigit(At(s, k))

\* ------------------------------------------------------------- os.path

\* Position of the last "/" of a path, 0 when it has none
LastSlash(p) ==
    IF \E i \in 1..Len(p) : p[i] = "/"
    THEN CHOOSE i \in 1..Len(p) :
            p[i] = "/" /\ \A k \in (i + 1)..Len(p) : p[k] # "/"
    ELSE 0

basename(p) == SubSeq(p, LastSlash(p) + 1, Len(p))

\* os.path.dirname of the absolute, normalised paths iglob yields here
dirname(p) == SubSeq(p, 1, LastSlash(p) - 1)

\* os.path.join(a, b) for a relative b and a that does not end in "/"
join(a, b) == a \o <<"/">> \o b

\* ------------------------------------------------------------------ filer

\* _S\d+_L\d+(_R\d(_\d+)?)? matches at i (the optional tail never decides)
IlluminaAt(s, i) ==
    /\ At(s, i) = "_"
    /\ ToLower(At(s, i + 1)) = "s"
    /\ \E j \in (i + 2)..Len(s) :
          /\ \A k \in (i + 2)..j : IsDigit(s[k])
          /\ At(s, j + 1) = "_"
          /\ ToLower(At(s, j + 2)) = "l"
          /\ IsDigit(At(s, j + 3))

\* _R\d_\d{3}
ReadBlockAt(s, i) ==
    /\ At(s, i) = "_"
    /\ ToLower(At(s, i + 1)) = "r"
    /\ IsDigit(At(s, i + 2))
    /\ At(s, i + 3) = "_"
    /\ DigitsAt(s, i + 4, 3)

\* _R\d_001
ReadBlock001At(s, i) ==
    /\ At(s, i) = "_"
    /\ ToLower(At(s, i + 1)) = "r"
    /\ IsDigit(At(s, i + 2))
    /\ StartsAt(s, i + 3, <<"_", "0", "0", "1">>)

\* _R\d
ReadAt(s, i) ==
    /\ At(s, i) = "_"
    /\ ToLower(At(s, i + 1)) = "r"
    /\ IsDigit(At(s, i + 2))

\* [-_]\d{1,3}(_\d{3})?$
NumericAt(s, i) ==
    /\ At(s, i) \in {"-", "_"}
    /\ \E n \in 1..3 :
          /\ DigitsAt(s, i + 1, n)
          /\ \/ i + n = Len(s)
             \/ /\ At(s, i + n + 1) = "_"
                /\ DigitsAt(s, i + n + 2, 3)
                /\ i + n + 4 = Len(s)

\* (?:\.<extension>(?:\.gz)?)$
ExtAt(s, i, extension) ==
    /\ StartsAtI(s, i, <<".">> \o extension)
    /\ \/ i + Len(extension) = Len(s)
       \/ /\ StartsAtI(s, i + Len(extension) + 1, <<".", "g", "z">>)
          /\ i + Len(extension) + 3 = Len(s)

\* pat.search(file_name): m.start() + 1 of the leftmost match, 0 for None
Search(Pat(_, _), s) ==
    LET starts == {i \in 1..Len(s) : Pat(s, i)}
    IN  IF starts = {} THEN 0
        ELSE CHOOSE i \in starts : \A k \in starts : i <= k

\* strip_patterns with the read rules tried before the Illumina rule
strip_patterns_read_first(s, extension) ==
    LET ExtPat(t, i) == ExtAt(t, i, extension)
        Cut(i) == SubSeq(s, 1, i - 1)
        m1 == Search(IlluminaAt, s)
        m2 == Search(ReadBlockAt, s)
        m3 == Search(ReadBlock001At, s)
        m4 == Search(ReadAt, s)
        m5 == Search(NumericAt, s)
        m6 == Search(ExtPat, s)
    IN  IF m2 # 0 THEN Cut(m2)
        ELSE IF m3 # 0 THEN Cut(m3)
        ELSE IF m4 # 0 THEN Cut(m4)
        ELSE IF m1 # 0 THEN Cut(m1)
        ELSE IF m5 # 0 THEN Cut(m5)
        ELSE IF m6 # 0 THEN Cut(m6)
        ELSE s

\* strip_patterns without the bare read rule _R\d
strip_patterns_no_read_rule(s, extension) ==
    LET ExtPat(t, i) == ExtAt(t, i, extension)
        Cut(i) == SubSeq(s, 1, i - 1)
        m1 == Search(IlluminaAt, s)
        m2 == Search(ReadBlockAt, s)
        m3 == Search(ReadBlock001At, s)
        m5 == Search(NumericAt, s)
        m6 == Search(ExtPat, s)
    IN  IF m1 # 0 THEN Cut(m1)
        ELSE IF m2 # 0 THEN Cut(m2)
        ELSE IF m3 # 0 THEN Cut(m3)
        ELSE IF m5 # 0 THEN Cut(m5)
        ELSE IF m6 # 0 THEN Cut(m6)
        ELSE s

\* The loop over strip_patterns: the first pattern that matches truncates the
\* name at the start of its leftmost match, and the loop breaks
strip_patterns(s, extension) ==
    LET ExtPat(t, i) == ExtAt(t, i, extension)
        Cut(i) == SubSeq(s, 1, i - 1)
        m1 == Search(IlluminaAt, s)
        m2 == Search(ReadBlockAt, s)
        m3 == Search(ReadBlock001At, s)
        m4 == Search(ReadAt, s)
        m5 == Search(NumericAt, s)
        m6 == Search(ExtPat, s)
    IN  IF m1 # 0 THEN Cut(m1)
        ELSE IF m2 # 0 THEN Cut(m2)
        ELSE IF m3 # 0 THEN Cut(m3)
        ELSE IF m4 # 0 THEN Cut(m4)
        ELSE IF m5 # 0 THEN Cut(m5)
        ELSE IF m6 # 0 THEN Cut(m6)
        ELSE s

\* file_name.rstrip('_-')
rstrip(s) ==
    IF \E n \in 0..Len(s) : \A k \in (n + 1)..Len(s) : s[k] \in {"_", "-"}
    THEN SubSeq(s, 1,
            CHOOSE n \in 0..Len(s) :
                /\ \A k \in (n + 1)..Len(s) : s[k] \in {"_", "-"}
                /\ n > 0 => s[n] \notin {"_", "-"})
    ELSE s

\* filer(filelist=[seqfile], extension=extension): the one name of the set
filer(seqfile, extension) == rstrip(strip_patterns(basename(seqfile), extension))

\* ------------------------------------------------------------------- glob

RECURSIVE Segments(_)
\* The components of a path between its "/" characters
Segments(p) ==
    IF LastSlash(p) = 0 THEN <<p>>
    ELSE Append(Segments(SubSeq(p, 1, LastSlash(p) - 1)), basename(p))

\* fnmatch of one path component against a pattern component holding at most
\* one "*"; a leading "*" does not match a hidden name
SegMatch(pat, seg) ==
    LET k == IndexIn(pat, "*")
        pre == SubSeq(pat, 1, k - 1)
        suf == SubSeq(pat, k + 1, Len(pat))
    IN  IF k = 0 THEN pat = seg
        ELSE /\ Len(seg) >= Len(pre) + Len(suf)
             /\ StartsAt(seg, 1, pre)
             /\ StartsAt(seg, Len(seg) - Len(suf) + 1, suf)
             /\ k = 1 => At(seg, 1) # "."

\* iglob(pattern) over the files present: the paths whose components match
\* the pattern's components one for one
iglob(pattern, files) ==
    LET want == Segments(pattern)
    IN  {p \in files :
            LET have == Segments(p)
            IN  /\ Len(have) = Len(want)
                /\ \A i \in 1..Len(want) : SegMatch(want[i], have[i])}

\* Every order in which a directory scan may yield the paths of S
Perms(S) ==
    {f \in [1..Cardinality(S) -> S] :
        \A i, j \in 1..Cardinality(S) : i # j => f[i] # f[j]}

\* ----------------------------------------------------- Retrieve.__init__

nas_dir == join(<<"/", "m", "n", "t">>, <<"n", "a", "s", "2">>)

processed_sequence_data ==
    join(nas_dir,
         <<"p", "r", "o", "c", "e", "s", "s", "e", "d", "_",
           "s", "e", "q", "u", "e", "n", "c", "e", "_", "d", "a", "t", "a">>)

raw_sequence_data ==
    join(nas_dir,
         <<"r", "a", "w", "_",
           "s", "e", "q", "u", "e", "n", "c", "e", "_", "d", "a", "t", "a">>)

\* The dictionary of search roots, in insertion order: the file types each
\* root holds and the nested folder structure of each
nas_folders ==
    << [directory |-> raw_sequence_data,
        nested_dict |-> [fastq |-> << <<"*", "/", "*">> >>]],
       [directory |-> processed_sequence_data,
        nested_dict |->
            [fasta |-> << <<"*", "/", "*", "/", "B", "e", "s", "t", "A", "s",
                            "s", "e", "m", "b", "l", "i", "e", "s">> >>]] >>

folders == [i \in DOMAIN nas_folders |-> nas_folders[i].directory]

extensions ==
    [fastq |-> <<"*", ".", "f", "a", "s", "t", "q", ".", "g", "z">>,
     fasta |-> <<"*", ".", "f", "a", "s", "t", "a">>]

\* The file type as the characters filer escapes into its extension pattern
TypeChars ==
    [fastq |-> <<"f", "a", "s", "t", "q">>,
     fasta |-> <<"f", "a", "s", "t", "a">>]

\* self.lengths without the allowance for paired reads
lengths_always_one(ft) == 1

\* 2 if self.filetype == 'fastq' else 1
lengths(ft) == IF ft = "fastq" THEN 2 ELSE 1

verb(copy) == IF copy THEN "Copying" ELSE "Linking"

\* new_file_dict = {}
EmptyDict == [k \in {} |-> <<>>]

\* The output directory, as a path
OutdirPath == <<"o", "u", "t">>

\* ------------------------------------------------------------------ state

VARIABLES
    pc,             \* where the run is: main, locate, triage, done, exit1, crashed
    seqids,         \* self.seqids: the requested SEQ IDs, as supplied
    filetype,       \* self.filetype
    copyflag,       \* self.copyflag
    mounted,        \* the search roots that are existing directories
    nas,            \* the paths of the files present under /mnt/nas2
    new_file_dict,  \* self.new_file_dict: SEQ ID -> list of paths
    missing,        \* self.missing
    outdir,         \* the entries of the output directory: file name -> entry
    log,            \* the records logged by the current call of main()
    idx,            \* position of file_triage's loop in sorted(self.seqids)
    run,            \* number of the current call of main()
    prev,           \* what the previous call of main() logged and reported
    probe,          \* a file name built from its parts, for filer alone
    extracted       \* what filer returned for the probe

vars ==
    <<pc, seqids, filetype, copyflag, mounted, nas, new_file_dict, missing,
      outdir, log, idx, run, prev, probe, extracted>>

probeVars == <<probe, extracted>>

\* ------------------------------------------------------------ the logger

\* One logged record: the level, which message, and its arguments
LogRec(level, msg, name, path, dirs, names) ==
    [level |-> level, msg |-> msg, name |-> name, path |-> path,
     dirs |-> dirs, names |-> names]

\* logging.critical(seqid)
LogSeqid(seqid) == LogRec("critical", "seqid", seqid, <<>>, {}, <<>>)

\* logging.info('%s %s to %s', self.verb, path, output_file)
LogProcess(copy, path, output_file) ==
    LogRec("info", verb(copy), output_file, path, {}, <<>>)

\* logging.warning('%s already exists in %s. Skipping.', filename, self.outdir)
LogSkip(filename) == LogRec("warning", "skip", filename, <<>>, {}, <<>>)

\* logging.error('Located multiple copies of %s at the following locations: %s')
LogMultiple(seqid, dirs) == LogRec("error", "multiple", seqid, <<>>, dirs, <<>>)

\* logging.error('Please ensure that only a single copy is present on the NAS')
LogSingleCopy == LogRec("error", "single_copy", <<>>, <<>>, {}, <<>>)

\* logging.error('Files for the following SEQ IDs could not be located: %s')
LogMissing(names) == LogRec("error", "missing", <<>>, <<>>, {}, names)

\* logging.error('Could not find %s. Ensure the NAS is properly mounted.')
LogNotMounted(folder) == LogRec("error", "not_mounted", folder, <<>>, {}, <<>>)

\* ------------------------------------------------- the output directory

\* An entry of the output directory.  kind: "file", "link" or "dir".  A link
\* is live when it resolves to a regular file; parent tells whether the
\* directory its target would be in exists.  content names the file whose
\* bytes reading the entry yields (<<>>: bytes that no run wrote).
Entry(kind, live, parent, content) ==
    [kind |-> kind, live |-> live, parent |-> parent, content |-> content]

\* os.path.isfile(output_file): a regular file, or a link that resolves to one
isfile(od, filename) ==
    /\ filename \in DOMAIN od
    /\ \/ od[filename].kind = "file"
       \/ od[filename].kind = "link" /\ od[filename].live

\* shutil.copyfile(path, output_file), reached only when isfile is false.
\* Nothing at output_file: the file is created.  A directory: open() raises
\* IsADirectoryError.  A dangling link: open() writes through it, or raises
\* FileNotFoundError when the directory of its target does not exist.
copyfile(st, path, filename) ==
    IF filename \notin DOMAIN st.outdir
    THEN [st EXCEPT !.outdir = @ @@ (filename :> Entry("file", TRUE, TRUE, path))]
    ELSE IF st.outdir[filename].kind = "link" /\ st.outdir[filename].parent
    THEN [st EXCEPT !.outdir[filename] = Entry("link", TRUE, TRUE, path)]
    ELSE [st EXCEPT !.ok = FALSE]

\* relative_symlink(src_file=path, output_dir=self.outdir): os.symlink, with
\* FileExistsError ignored
relative_symlink(st, path, filename) ==
    IF filename \notin DOMAIN st.outdir
    THEN [st EXCEPT !.outdir = @ @@ (filename :> Entry("link", TRUE, TRUE, path))]
    ELSE st

\* ------------------------------------------------------ the files on the NAS

RawFile(rundir, name) ==
    join(join(join(raw_sequence_data, rundir), <<"d">>), name)

AssemblyFile(rundir, name) ==
    join(join(join(join(processed_sequence_data, rundir), <<"d">>),
              <<"B", "e", "s", "t", "A", "s", "s", "e", "m", "b", "l", "i", "e", "s">>),
         name)

NameR1 ==
    <<"a", "b", "_", "S", "1", "_", "L", "0", "0", "1", "_", "R", "1", "_",
      "0", "0", "1", ".", "f", "a", "s", "t", "q", ".", "g", "z">>

NameR2 ==
    <<"a", "b", "_", "S", "1", "_", "L", "0", "0", "1", "_", "R", "2", "_",
      "0", "0", "1", ".", "f", "a", "s", "t", "q", ".", "g", "z">>

NameUpper ==
    <<"A", "B", "_", "R", "1", ".", "f", "a", "s", "t", "q", ".", "g", "z">>

NameShallow == <<"a", "b", "_", "R", "1", ".", "f", "a", "s", "t", "q", ".", "g", "z">>

NameFasta == <<"a", "b", ".", "f", "a", "s", "t", "a">>

\* The files that may be present: paired reads of ab in one run folder, a
\* second copy of R1 in another, reads of AB, a read one level too high for
\* the glob, and three assemblies of ab
FastqFiles ==
    {RawFile(<<"r", "1">>, NameR1), RawFile(<<"r", "1">>, NameR2),
     RawFile(<<"r", "2">>, NameR1), RawFile(<<"r", "1">>, NameUpper),
     join(join(raw_sequence_data, <<"r", "1">>), NameShallow)}

FastaFiles ==
    {AssemblyFile(<<"r", "1">>, NameFasta), AssemblyFile(<<"r", "2">>, NameFasta),
     AssemblyFile(<<"r", "3">>, NameFasta)}

Universe == FastqFiles \cup FastaFiles

RequestIds == {<<"a", "b">>, <<"A", "B">>}

FileTypes == {"fastq", "fasta"}

\* --------------------------------------------------------------- sorted

\* StrLess over the paths and SEQ IDs of the model, evaluated once
LessTable ==
    [a \in Universe \cup RequestIds |->
        {b \in Universe \cup RequestIds : StrLess(a, b)}]

Less(a, b) ==
    IF a \in DOMAIN LessTable /\ b \in DOMAIN LessTable
    THEN b \in LessTable[a]
    ELSE StrLess(a, b)

RECURSIVE Insert(_, _)
Insert(x, seq) ==
    IF seq = <<>> THEN <<x>>
    ELSE IF Less(x, Head(seq)) THEN <<x>> \o seq
    ELSE <<Head(seq)>> \o Insert(x, Tail(seq))

RECURSIVE sorted(_)
\* sorted(list of str): ascending by code point, duplicates kept
sorted(seq) ==
    IF seq = <<>> THEN <<>> ELSE Insert(Head(seq), sorted(Tail(seq)))

\* ------------------------------------------------------------- Retrieve

\* verify_folders looking at the first folder only
verify_first_folder_only(dirs) == folders[1] \in dirs

\* verify_folders: every folder of self.folders is a directory
verify_folders(dirs) == \A i \in DOMAIN folders : folders[i] \in dirs

\* The first folder that is no directory: the one the error names
FirstNotMounted(dirs) ==
    folders[CHOOSE i \in DOMAIN folders :
                /\ folders[i] \notin dirs
                /\ \A k \in 1..(i - 1) : folders[k] \in dirs]

RECURSIVE GlobPatterns(_, _)
\* The patterns search_nas hands to iglob, in the order of its two loops; a
\* root without the file type raises KeyError, which is passed over
GlobPatterns(roots, ft) ==
    IF roots = <<>> THEN <<>>
    ELSE LET root == Head(roots)
             globs == IF ft \in DOMAIN root.nested_dict
                      THEN root.nested_dict[ft] ELSE <<>>
         IN  [i \in DOMAIN globs |->
                 join(join(root.directory, globs[i]), extensions[ft])]
             \o GlobPatterns(Tail(roots), ft)

\* iglob of every pattern over all the files of the model, evaluated once
MatchTable ==
    [ft \in FileTypes |->
        [i \in DOMAIN GlobPatterns(nas_folders, ft) |->
            iglob(GlobPatterns(nas_folders, ft)[i], Universe)]]

RECURSIVE EnumerationsFrom(_, _, _)
EnumerationsFrom(i, ft, files) ==
    IF i > Len(MatchTable[ft]) THEN {<<>>}
    ELSE {a \o b : a \in Perms(MatchTable[ft][i] \cap files),
                   b \in EnumerationsFrom(i + 1, ft, files)}

\* Every sequence of paths the iglob calls of one search_nas may yield: each
\* pattern's matches among the files present in any order, the patterns in
\* turn
Enumerations(ft, files) == EnumerationsFrom(1, ft, files)

\* sequence_id with the SEQ ID folded to lower case
sequence_id_folded(path, ft) ==
    LET id == basename(filer(path, TypeChars[ft]))
    IN  [i \in DOMAIN id |-> ToLower(id[i])]

\* os.path.basename(list(filer(filelist=[path], extension=self.filetype))[0])
sequence_id(path, ft) == basename(filer(path, TypeChars[ft]))

\* sequence_id of every file of the model, evaluated once
IdTable == [ft \in FileTypes |-> [p \in Universe |-> sequence_id(p, ft)]]

RECURSIVE search_nas(_, _, _)
\* The body of search_nas for the paths yielded: each is appended to the
\* list of its SEQ ID, which is created on first use
search_nas(file_dict, paths, ft) ==
    IF paths = <<>> THEN file_dict
    ELSE LET path == Head(paths)
             id == IdTable[ft][path]
             added == IF id \in DOMAIN file_dict
                      THEN [file_dict EXCEPT ![id] = Append(@, path)]
                      ELSE file_dict @@ (id :> <<path>>)
         IN  search_nas(added, Tail(paths), ft)

\* process_files(path) on st = [outdir, log, ok]; ok is false once an
\* exception has left the call
process_files(st, path, copy) ==
    LET filename == basename(path)
        output_file == join(OutdirPath, filename)
        logged == [st EXCEPT !.log = Append(@, LogProcess(copy, path, output_file))]
    IN  IF ~st.ok THEN st
        ELSE IF ~isfile(st.outdir, filename)
        THEN IF copy THEN copyfile(logged, path, filename)
             ELSE relative_symlink(logged, path, filename)
        ELSE [logged EXCEPT !.log = Append(@, LogSkip(filename))]

\* file_paths taking the paths in the order they were found
unsorted(paths) == paths

\* sorted(paths) of file_paths
sorted_paths(paths) == sorted(paths)

\* file_paths(seqid, file_dict)
file_paths(st, seqid, file_dict, ft, copy) ==
    LET paths == file_dict[seqid]
        warned ==
            IF Len(paths) > lengths(ft)
            THEN [st EXCEPT !.log =
                    @ \o <<LogMultiple(seqid,
                                       {dirname(paths[i]) : i \in DOMAIN paths}),
                           LogSingleCopy>>]
            ELSE st
        ordered == sorted_paths(paths)
        first == process_files(warned, ordered[1], copy)
    IN  IF ft = "fastq" /\ Len(paths) > 1
        THEN process_files(first, ordered[2], copy)
        ELSE first

\* seqid in self.new_file_dict
found(seqid, file_dict) == seqid \in DOMAIN file_dict

RECURSIVE Blocks(_)
\* What a run's log says was selected: for each SEQ ID announced by
\* logging.critical, the paths handed to process_files before the next one
Blocks(l) ==
    IF l = <<>> THEN <<>>
    ELSE LET init == Blocks(SubSeq(l, 1, Len(l) - 1))
             e == l[Len(l)]
         IN  IF e.level = "critical"
             THEN Append(init, [seqid |-> e.name, paths |-> <<>>])
             ELSE IF e.level = "info" /\ init # <<>>
             THEN [init EXCEPT ![Len(init)].paths = Append(@, e.path)]
             ELSE init

\* ------------------------------------------------------- the environment

NasStates ==
    {F \in SUBSET (FastqFiles \cup FastaFiles) : Cardinality(F) <= MaxFiles}

RequestLists == UNION {[1..n -> RequestIds] : n \in 0..MaxSeqids}

\* What may already be in the output directory under the name of a file to
\* retrieve: a regular file, a link to a file, a dangling link (the folder of
\* its target present or gone), or a directory
PreEntries ==
    {Entry("file", TRUE, TRUE, <<>>), Entry("link", TRUE, TRUE, <<>>),
     Entry("link", FALSE, TRUE, <<>>), Entry("link", FALSE, FALSE, <<>>),
     Entry("dir", TRUE, TRUE, <<>>)}

PreName(ft) == IF ft = "fastq" THEN NameR1 ELSE NameFasta

OutdirStates(ft) == {EmptyDict} \cup {(PreName(ft) :> e) : e \in PreEntries}

NoPrev == [found |-> <<>>, missing |-> <<>>, fresh |-> TRUE]

NoProbe == [id |-> <<>>, form |-> "none", name |-> <<>>, ft |-> "fastq"]

\* ----------------------------------------------------------------- Init

\* The state once Retrieve(seqids, outdir, copyflag, filetype, verboseflag)
\* has been constructed: the output directory exists, nothing is found yet
Init ==
    /\ pc = "main"
    /\ seqids \in RequestLists
    /\ filetype \in {"fastq", "fasta"}
    /\ copyflag \in BOOLEAN
    /\ mounted \in SUBSET {folders[i] : i \in DOMAIN folders}
    /\ nas \in NasStates
    /\ new_file_dict = EmptyDict
    /\ missing = <<>>
    /\ outdir \in OutdirStates(filetype)
    /\ log = <<>>
    /\ idx = 1
    /\ run = 1
    /\ prev = NoPrev
    /\ probe = NoProbe
    /\ extracted = <<>>

\* -------------------------------------------------------------- actions

\* main(): self.verify_folders()
VerifyFolders ==
    /\ pc = "main"
    /\ IF verify_folders(mounted)
       THEN /\ pc' = "locate"
            /\ log' = log
       ELSE /\ pc' = "exit1"
            /\ log' = Append(log, LogNotMounted(FirstNotMounted(mounted)))
    /\ UNCHANGED <<seqids, filetype, copyflag, mounted, nas, new_file_dict,
                   missing, outdir, idx, run, prev>>
    /\ UNCHANGED probeVars

\* main(): self.locate_files(), the whole of search_nas
LocateFiles ==
    /\ pc = "locate"
    /\ \E paths \in Enumerations(filetype, nas) :
          new_file_dict' = search_nas(new_file_dict, paths, filetype)
    /\ pc' = "triage"
    /\ idx' = 1
    /\ UNCHANGED <<seqids, filetype, copyflag, mounted, nas, missing, outdir,
                   log, run, prev>>
    /\ UNCHANGED probeVars

\* main(): one iteration of the loop of self.file_triage()
FileTriage ==
    /\ pc = "triage"
    /\ idx <= Len(seqids)
    /\ LET seqid == sorted(seqids)[idx]
           st0 == [outdir |-> outdir, log |-> Append(log, LogSeqid(seqid)),
                   ok |-> TRUE]
           st == IF found(seqid, new_file_dict)
                 THEN file_paths(st0, seqid, new_file_dict, filetype, copyflag)
                 ELSE st0
       IN  /\ outdir' = st.outdir
           /\ log' = st.log
           /\ missing' = IF found(seqid, new_file_dict) THEN missing
                         ELSE Append(missing, seqid)
           /\ IF st.ok
              THEN pc' = pc /\ idx' = idx + 1
              ELSE pc' = "crashed" /\ idx' = idx
    /\ UNCHANGED <<seqids, filetype, copyflag, mounted, nas, new_file_dict,
                   run, prev>>
    /\ UNCHANGED probeVars

\* main(): self.missing_seqids(), once the loop of file_triage has ended
MissingSeqids ==
    /\ pc = "triage"
    /\ idx > Len(seqids)
    /\ log' = IF missing # <<>> THEN Append(log, LogMissing(missing)) ELSE log
    /\ pc' = "done"
    /\ UNCHANGED <<seqids, filetype, copyflag, mounted, nas, new_file_dict,
                   missing, outdir, idx, run, prev>>
    /\ UNCHANGED probeVars

Next == VerifyFolders \/ LocateFiles \/ FileTriage \/ MissingSeqids

\* One Retrieve, constructed and run once: what nastools main() and
\* retrieve_nas_files do
Spec == Init /\ [][Next]_vars

\* ===================================================================
\* Properties of one run (Spec)
\* ===================================================================

\* The SEQ ID filer derives from each file of the model, evaluated once,
\* straight from filer
DerivedTable ==
    [ft \in FileTypes |-> [p \in Universe |-> basename(filer(p, TypeChars[ft]))]]

\* The files that search_nas enumerates: those present that match a pattern
\* registered for the requested file type under some search root
Enumerated ==
    UNION {MatchTable[filetype][i] \cap nas : i \in DOMAIN MatchTable[filetype]}

\* The candidates of a SEQ ID: the enumerated files whose derived SEQ ID is it
Candidates(seqid) == {p \in Enumerated : DerivedTable[filetype][p] = seqid}

\* N: how many files of one SEQ ID are retrieved
Wanted == IF filetype = "fastq" THEN 2 ELSE 1

Smaller(a, b) == IF a < b THEN a ELSE b

\* file_triage has returned
Triaged == pc = "done" \/ (pc = "triage" /\ idx > Len(seqids))

\* The blocks of calls that returned: all but the one an exception left
Complete(blocks) ==
    IF pc = "crashed" THEN SubSeq(blocks, 1, Len(blocks) - 1) ELSE blocks

InMissing(seqid) == \E i \in DOMAIN missing : missing[i] = seqid

FoundIn(blocks, seqid) ==
    \E i \in DOMAIN blocks : blocks[i].seqid = seqid /\ blocks[i].paths # <<>>

IsFound(seqid) == FoundIn(Blocks(log), seqid)

\* C2: after locate_files and file_triage, every requested SEQ ID is either
\* found, with a non-empty list of selected paths whose derived SEQ ID each
\* equals it exactly, or in the missing list, and never both; it is missing
\* exactly when no enumerated file derives it; and the missing list is in
\* sorted order.
C2_FoundOrMissing ==
    Triaged =>
        LET blocks == Blocks(log)
            files == Enumerated
        IN  /\ \A k \in DOMAIN seqids :
                  LET s == seqids[k]
                  IN  /\ FoundIn(blocks, s) # InMissing(s)
                      /\ \A i \in DOMAIN blocks :
                            blocks[i].seqid = s =>
                                \A j \in DOMAIN blocks[i].paths :
                                    DerivedTable[filetype][blocks[i].paths[j]] = s
                      /\ InMissing(s) <=>
                            ~ \E p \in files : DerivedTable[filetype][p] = s
            /\ \A i, j \in DOMAIN missing :
                  i < j => ~ Less(missing[j], missing[i])
            /\ \A i \in DOMAIN missing :
                  \E k \in DOMAIN seqids : seqids[k] = missing[i]

\* C2 witness: a finished fastq run in which AB was found through a file
\* named AB_..., while ab, requested too, is missing
C2_Witness ==
    /\ pc = "done"
    /\ filetype = "fastq"
    /\ Len(seqids) = 2
    /\ IsFound(<<"A", "B">>)
    /\ missing = << <<"a", "b">> >>

\* C3: the paths file_paths selects for a SEQ ID are the N smallest of its
\* candidates (all of them when there are fewer), in ascending order,
\* whatever the order in which the scan yielded them.
C3_SmallestSelected ==
    LET blocks == Complete(Blocks(log))
    IN  \A i \in DOMAIN blocks :
            LET b == blocks[i]
                cands == Candidates(b.seqid)
            IN  cands # {} =>
                    /\ Len(b.paths) = Smaller(Wanted, Cardinality(cands))
                    /\ \A j \in DOMAIN b.paths : b.paths[j] \in cands
                    /\ \A j, k \in DOMAIN b.paths :
                          j < k => Less(b.paths[j], b.paths[k])
                    /\ \A c \in cands :
                          (\A j \in DOMAIN b.paths : b.paths[j] # c) =>
                              \A j \in DOMAIN b.paths : Less(b.paths[j], c)

\* C3 witness: three candidates of ab were enumerated in an order that is not
\* the sorted one, and two were selected
C3_Witness ==
    /\ pc = "done"
    /\ <<"a", "b">> \in DOMAIN new_file_dict
    /\ Len(new_file_dict[<<"a", "b">>]) = 3
    /\ Less(new_file_dict[<<"a", "b">>][3], new_file_dict[<<"a", "b">>][1])
    /\ \E i \in DOMAIN Blocks(log) : Len(Blocks(log)[i].paths) = 2

\* C8: when a search root is no directory as main() starts, the run ends in
\* verify_folders with a failure exit: nothing was scanned, nothing selected,
\* nothing copied or linked, the found map and the missing list are empty and
\* the output directory holds only what it held before.
C8_ConfigError ==
    ((\E i \in DOMAIN folders : folders[i] \notin mounted) /\ pc # "main") =>
        /\ pc = "exit1"
        /\ DOMAIN new_file_dict = {}
        /\ missing = <<>>
        /\ Blocks(log) = <<>>
        /\ \A i \in DOMAIN log : log[i].level = "error" /\ log[i].msg = "not_mounted"
        /\ outdir \in OutdirStates(filetype)

\* C8 witness: the run has exited although the raw-data root is mounted,
\* files are present and SEQ IDs were requested
C8_Witness ==
    /\ pc = "exit1"
    /\ raw_sequence_data \in mounted
    /\ nas # {}
    /\ seqids # <<>>
    /\ Len(log) = 1

\* The duplicate-copies errors logged for a SEQ ID
MultipleWarnings(seqid) ==
    {i \in DOMAIN log : log[i].msg = "multiple" /\ log[i].name = seqid}

\* C9: the duplicate-copies warning is logged for a SEQ ID exactly when it
\* has more than N candidates; it names the distinct folders of all the
\* candidates; and the first N sorted candidates are processed all the same.
C9_AmbiguousMatch ==
    LET blocks == Blocks(log)
        complete == Complete(blocks)
    IN  /\ \A i \in DOMAIN blocks :
              LET s == blocks[i].seqid
                  cands == Candidates(s)
                  warnings == MultipleWarnings(s)
              IN  /\ (warnings # {}) <=> (Cardinality(cands) > Wanted)
                  /\ \A w \in warnings :
                        log[w].dirs = {dirname(c) : c \in cands}
        /\ \A i \in DOMAIN complete :
              LET b == complete[i]
                  cands == Candidates(b.seqid)
              IN  Cardinality(cands) > Wanted =>
                    /\ Len(b.paths) = Wanted
                    /\ \A j \in DOMAIN b.paths :
                          Cardinality({c \in cands : Less(c, b.paths[j])})
                              = j - 1

\* C9 witness: three assemblies of ab in three folders, the warning naming
\* the three folders, one file processed, the run finished
C9_Witness ==
    /\ pc = "done"
    /\ filetype = "fasta"
    /\ Cardinality(Candidates(<<"a", "b">>)) = 3
    /\ \E w \in MultipleWarnings(<<"a", "b">>) : Cardinality(log[w].dirs) = 3
    /\ \E i \in DOMAIN Blocks(log) : Len(Blocks(log)[i].paths) = 1

\* C7: whenever process_files is called and something is already at the
\* destination (from before the step, or put there by an earlier call of the
\* step for a file of the same base name), in copy mode and in link mode
\* alike, what was there is left as it was, the skip warning is logged next,
\* and the run goes on.
C7_DestinationCollision ==
    [][LET new == SubSeq(log', Len(log) + 1, Len(log'))
           calls == {j \in DOMAIN new : new[j].level = "info"}
           Name(j) == basename(new[j].path)
           Existed(j) ==
               \/ Name(j) \in DOMAIN outdir
               \/ \E k \in calls : k < j /\ Name(k) = Name(j)
       IN  pc = "triage" =>
               \A j \in calls :
                   Existed(j) =>
                       /\ Name(j) \in DOMAIN outdir =>
                             outdir'[Name(j)] = outdir[Name(j)]
                       /\ j < Len(new)
                       /\ new[j + 1] = LogSkip(Name(j))
                       /\ pc' # "crashed"]_vars

\* What does hold of a collision: when the destination is a regular file, or
\* a link that resolves to one, it is left as it was, the skip warning is
\* logged and the run goes on
RegularFileSkipped ==
    [][LET new == SubSeq(log', Len(log) + 1, Len(log'))
           calls == {j \in DOMAIN new : new[j].level = "info"}
           Name(j) == basename(new[j].path)
       IN  pc = "triage" =>
               \A j \in calls :
                   isfile(outdir, Name(j)) =>
                       /\ outdir'[Name(j)] = outdir[Name(j)]
                       /\ j < Len(new)
                       /\ new[j + 1] = LogSkip(Name(j))
                       /\ pc' # "crashed"]_vars

\* C10: once verify_folders has passed no per-identifier problem ends the
\* run: no exception leaves file_triage, the SEQ IDs are triaged in sorted
\* order, the missing-SEQ-ID report comes only after all of them, and a
\* finished run has every SEQ ID processed or recorded as missing.
C10_RunCompletes ==
    LET blocks == Blocks(log)
        order == sorted(seqids)
    IN  /\ pc # "crashed"
        /\ \A i \in DOMAIN blocks : blocks[i].seqid = order[i]
        /\ (\E i \in DOMAIN log : log[i].msg = "missing") =>
                Len(blocks) = Len(seqids)
        /\ pc = "done" =>
                \A k \in DOMAIN seqids :
                    FoundIn(blocks, seqids[k]) \/ InMissing(seqids[k])

\* What does hold of the order of a run: the SEQ IDs are triaged in sorted
\* order and the report comes after the last of them
TriageInOrder ==
    LET blocks == Blocks(log)
        order == sorted(seqids)
    IN  /\ \A i \in DOMAIN blocks : blocks[i].seqid = order[i]
        /\ (\E i \in DOMAIN log : log[i].msg = "missing") =>
                Len(blocks) = Len(seqids)

\* ===================================================================
\* Runs that follow a run (SpecRerun)
\* ===================================================================

\* A second Retrieve constructed with the same arguments, once the first
\* run has ended: __init__ starts from empty collections
Construct ==
    /\ pc \in {"done", "crashed"}
    /\ run < MaxRuns
    /\ run' = run + 1
    /\ prev' = [found |-> Blocks(log), missing |-> missing, fresh |-> TRUE]
    /\ new_file_dict' = EmptyDict
    /\ missing' = <<>>
    /\ log' = <<>>
    /\ idx' = 1
    /\ pc' = "main"
    /\ UNCHANGED <<seqids, filetype, copyflag, mounted, nas, outdir>>
    /\ UNCHANGED probeVars

\* main() called again on the Retrieve that has just finished a run:
\* new_file_dict and missing are those the first call left
MainAgain ==
    /\ pc = "done"
    /\ run < MaxRuns
    /\ run' = run + 1
    /\ prev' = [found |-> Blocks(log), missing |-> missing, fresh |-> FALSE]
    /\ log' = <<>>
    /\ idx' = 1
    /\ pc' = "main"
    /\ UNCHANGED <<seqids, filetype, copyflag, mounted, nas, outdir,
                   new_file_dict, missing>>
    /\ UNCHANGED probeVars

InitRerun == Init /\ mounted = {folders[i] : i \in DOMAIN folders}

NextRerun == Next \/ Construct \/ MainAgain

SpecRerun == InitRerun /\ [][NextRerun]_vars

\* C4: a run that follows a run over the same files, with the same SEQ IDs
\* and file type, ends with the same selected paths per SEQ ID and the same
\* missing list, whether it is a new Retrieve or main() called again.
C4_Idempotent ==
    (run > 1 /\ pc \in {"done", "crashed"}) =>
        /\ Blocks(log) = prev.found
        /\ missing = prev.missing

\* What does hold: a newly constructed Retrieve repeats the results
FreshRunRepeats ==
    (run > 1 /\ prev.fresh /\ pc \in {"done", "crashed"}) =>
        /\ Blocks(log) = prev.found
        /\ missing = prev.missing

\* ===================================================================
\* filer on file names built from their parts (SpecFiler)
\* ===================================================================

ProbeDigits == {"0", "1"}

\* The digit strings of one to n digits
DigitStrings(n) == UNION {[1..k -> ProbeDigits] : k \in 1..n}

\* Three-digit block numbers
BlockNumbers == {<<"0", "0", "1">>, <<"1", "2", "0">>}

\* Identifiers: plain; ending in a separator and digits; ending in a
\* separator; holding a lane-like group; holding a read-like group
ProbeIds ==
    {<<"a", "b">>,
     <<"x", "-", "0", "1">>,
     <<"a", "b", "-">>,
     <<"a", "_", "s", "1", "_", "l", "1", "b">>,
     <<"a", "_", "r", "1", "b">>}

\* .<ext>[.gz]
Suffix(ft, gz) ==
    <<".">> \o TypeChars[ft] \o (IF gz THEN <<".", "g", "z">> ELSE <<>>)

Probe(id, form, name, ft) == [id |-> id, form |-> form, name |-> name, ft |-> ft]

\* <id>_S<n>_L<n>_R<n>_<nnn>.<ext>[.gz]
IlluminaProbes ==
    {Probe(id, "illumina",
           id \o <<"_", "S">> \o a \o <<"_", "L">> \o b \o <<"_", "R">> \o c
              \o <<"_">> \o n \o Suffix(ft, gz), ft) :
        id \in ProbeIds, a \in DigitStrings(MaxDigLen),
        b \in DigitStrings(MaxDigLen), c \in DigitStrings(MaxDigLen),
        n \in BlockNumbers, ft \in FileTypes, gz \in BOOLEAN}

\* <id>_R<1|2>.<ext>[.gz] and <id>_R<1|2>_<nnn>.<ext>[.gz]
ReadProbes ==
    {Probe(id, "read", id \o <<"_", "R", r>> \o Suffix(ft, gz), ft) :
        id \in ProbeIds, r \in {"1", "2"}, ft \in FileTypes, gz \in BOOLEAN}
    \cup
    {Probe(id, "read", id \o <<"_", "R", r, "_">> \o n \o Suffix(ft, gz), ft) :
        id \in ProbeIds, r \in {"1", "2"}, n \in BlockNumbers,
        ft \in FileTypes, gz \in BOOLEAN}

\* <id>_<n>.<ext>[.gz], <n> of one to three digits
NumericProbes ==
    {Probe(id, "numeric", id \o <<"_">> \o n \o Suffix(ft, gz), ft) :
        id \in ProbeIds, n \in DigitStrings(3), ft \in FileTypes, gz \in BOOLEAN}

\* The folder the probed file is in
ProbeDir == join(join(raw_sequence_data, <<"r", "1">>), <<"d">>)

InitFiler ==
    /\ pc = "probe"
    /\ probe \in IlluminaProbes \cup ReadProbes \cup NumericProbes
    /\ extracted = <<>>
    /\ seqids = <<>>
    /\ filetype = probe.ft
    /\ copyflag = FALSE
    /\ mounted = {folders[i] : i \in DOMAIN folders}
    /\ nas = {}
    /\ new_file_dict = EmptyDict
    /\ missing = <<>>
    /\ outdir = EmptyDict
    /\ log = <<>>
    /\ idx = 1
    /\ run = 1
    /\ prev = NoPrev

\* search_nas, lines 97-105: the SEQ ID of the path iglob yielded
Extract ==
    /\ pc = "probe"
    /\ extracted' = sequence_id(join(ProbeDir, probe.name), probe.ft)
    /\ pc' = "extracted"
    /\ UNCHANGED <<seqids, filetype, copyflag, mounted, nas, new_file_dict,
                   missing, outdir, log, idx, run, prev, probe>>

SpecFiler == InitFiler /\ [][Extract]_vars

\* The identifier ends in "_" or "-"
EndsInSeparator(id) == id # <<>> /\ id[Len(id)] \in {"_", "-"}

\* The identifier ends in a separator followed by digits only
EndsInSeparatorDigits(id) ==
    \E i \in 1..(Len(id) - 1) :
        id[i] \in {"_", "-"} /\ \A k \in (i + 1)..Len(id) : IsDigit(id[k])

\* The identifier holds a group _S<digits>_L<digit>, in either case
HoldsLaneGroup(id) == \E i \in 1..Len(id) : IlluminaAt(id, i)

\* The identifier holds a group _R<digit>, in either case
HoldsReadGroup(id) == \E i \in 1..Len(id) : ReadAt(id, i)

\* C1 as stated: for every name <id>_S<n>_L<n>_R<n>_<nnn>.<ext>[.gz], any
\* identifier <id>, what filer returns through search_nas is exactly <id>.
C1_IlluminaAnyId ==
    (pc = "extracted" /\ probe.form = "illumina") => extracted = probe.id

\* C1 as amended: for every name <id>_S<n>_L<n>_R<n>_<nnn>.<ext>[.gz] whose
\* <id> does not end in "_" or "-" and holds no group _S<digits>_L<digit>
\* (in either case) of its own, what filer returns is exactly <id>.
C1_Illumina ==
    (/\ pc = "extracted"
     /\ probe.form = "illumina"
     /\ ~ EndsInSeparator(probe.id)
     /\ ~ HoldsLaneGroup(probe.id)) => extracted = probe.id

\* C1 witness: an identifier that itself holds a read-like group is returned
\* whole from a compressed Illumina name
C1_Witness ==
    /\ pc = "extracted"
    /\ probe.form = "illumina"
    /\ HoldsReadGroup(probe.id)
    /\ StartsAt(probe.name, Len(probe.name) - 2, <<".", "g", "z">>)
    /\ extracted = probe.id

\* C5: for every name <id>_<n>.<ext>[.gz], <n> of one to three digits and
\* <id> not ending in a separator and digits, filer returns <id>.
C5_NumericSuffix ==
    (/\ pc = "extracted"
     /\ probe.form = "numeric"
     /\ ~ EndsInSeparatorDigits(probe.id)) => extracted = probe.id

\* C6 as stated: for every name <id>_R<1|2>.<ext>[.gz] or
\* <id>_R<1|2>_<nnn>.<ext>[.gz], any identifier <id>, filer returns <id>.
C6_ReadAnyId ==
    (pc = "extracted" /\ probe.form = "read") => extracted = probe.id

\* C6 as amended: for every name <id>_R<1|2>.<ext>[.gz] or
\* <id>_R<1|2>_<nnn>.<ext>[.gz] whose <id> does not end in "_" or "-" and
\* holds no group _S<digits>_L<digit> and no group _R<digit> (in either
\* case) of its own, filer returns <id>.
C6_Read ==
    (/\ pc = "extracted"
     /\ probe.form = "read"
     /\ ~ EndsInSeparator(probe.id)
     /\ ~ HoldsLaneGroup(probe.id)
     /\ ~ HoldsReadGroup(probe.id)) => extracted = probe.id

\* C6 witness: an identifier ending in a separator and digits is returned
\* whole from a name with a bare read marker and no block number
C6_Witness ==
    /\ pc = "extracted"
    /\ probe.form = "read"
    /\ EndsInSeparatorDigits(probe.id)
    /\ probe.name = probe.id \o <<"_", "R", "2">> \o Suffix(probe.ft, TRUE)
    /\ extracted = probe.id

====
